---------------------------- MODULE Spec2Model ----------------------------
(***************************************************************************)
(* A model of the systemctl crate (src/src/lib.rs): the capture of a       *)
(* systemctl child process and the classification of its exit status, the  *)
(* parser of documentation descriptors, the parser of the unit-file        *)
(* listing and the construction of a Unit from the status text, the        *)
(* directive dump and the is-active probe.                                 *)
(*                                                                         *)
(* A Rust string is a sequence of bytes.  An ASCII byte is a one-character *)
(* string; a byte >= 0x80 is written as its two hexadecimal digits, so     *)
(* that the glyph U+25CF, which is three bytes in UTF-8, takes three       *)
(* elements: "E2", "97", "8F".                                             *)
(***************************************************************************)
EXTENDS Naturals, Sequences, FiniteSets

-----------------------------------------------------------------------------
(* Bounds of the model.                                                    *)

\* The number of pieces a documentation descriptor is built from.
MaxDocPieces == 4

\* The largest exit code a child is made to exit with.
MaxExitCode == 5

\* The number of lines of a unit-file listing.
MaxListLines == 2

\* The number of lines after the header of a status text, and of lines of a
\* directive dump, when create_unit runs against every answer of every probe.
MaxProbeLines == 2

\* The number of lines after the header of a status text, when the other
\* probes answer in one way.
MaxStatusLines == 3

\* The number of lines of a directive dump, when the other probes answer in
\* one way.
MaxCatLines == 3

-----------------------------------------------------------------------------
(* Option and Result values.                                               *)

None == <<>>
Some(v) == <<v>>
is_some(o) == o # <<>>
unwrap(o) == o[1]

Ok(v) == [tag |-> "Ok", val |-> v]
Err(kind, msg) == [tag |-> "Err", kind |-> kind, msg |-> msg]
\* A panic unwinds the caller: the operation returns nothing.
Panic(at) == [tag |-> "Panic", at |-> at]
NoResult == [tag |-> "None"]

-----------------------------------------------------------------------------
(* The methods of str the crate uses, on sequences of bytes.               *)

\* char::is_ascii_whitespace: space, tab, line feed, form feed, carriage
\* return.
is_ascii_whitespace(c) == c \in {" ", "\t", "\n", "\f", "\r"}

\* char::is_whitespace, on the bytes of the model (White_Space has no other
\* one-byte member than these and the vertical tab).
is_whitespace(c) == c \in {" ", "\t", "\n", "\f", "\r"}

\* The bytes 0x80..0xBF continue a multi-byte character.
is_continuation(b) == b \in {"80", "81", "82", "83", "84", "85", "86", "87", "88", "89", "8A", "8B", "8C", "8D", "8E", "8F", "90", "91", "92", "93", "94", "95", "96", "97", "98", "99", "9A", "9B", "9C", "9D", "9E", "9F", "A0", "A1", "A2", "A3", "A4", "A5", "A6", "A7", "A8", "A9", "AA", "AB", "AC", "AD", "AE", "AF", "B0", "B1", "B2", "B3", "B4", "B5", "B6", "B7", "B8", "B9", "BA", "BB", "BC", "BD", "BE", "BF"}

starts_with(s, p) == Len(s) >= Len(p) /\ SubSeq(s, 1, Len(p)) = p

ends_with(s, p) == Len(s) >= Len(p) /\ SubSeq(s, Len(s) - Len(p) + 1, Len(s)) = p

strip_prefix(s, p) ==
    IF starts_with(s, p) THEN Some(SubSeq(s, Len(p) + 1, Len(s))) ELSE None

strip_suffix(s, p) ==
    IF ends_with(s, p) THEN Some(SubSeq(s, 1, Len(s) - Len(p))) ELSE None

RECURSIVE trim_start(_)
trim_start(s) ==
    IF s = <<>> \/ ~is_whitespace(s[1]) THEN s ELSE trim_start(Tail(s))

RECURSIVE trim_end(_)
trim_end(s) ==
    IF s = <<>> \/ ~is_whitespace(s[Len(s)]) THEN s
    ELSE trim_end(SubSeq(s, 1, Len(s) - 1))

trim(s) == trim_end(trim_start(s))

\* str::find(char): the index of the first occurrence, 0 when there is none.
find(s, c) ==
    IF \E i \in 1..Len(s) : s[i] = c
    THEN CHOOSE i \in 1..Len(s) : s[i] = c /\ \A j \in 1..(i - 1) : s[j] # c
    ELSE 0

\* str::rfind(char): the index of the last occurrence, 0 when there is none.
rfind(s, c) ==
    IF \E i \in 1..Len(s) : s[i] = c
    THEN CHOOSE i \in 1..Len(s) : s[i] = c /\ \A j \in (i + 1)..Len(s) : s[j] # c
    ELSE 0

contains(s, c) == find(s, c) # 0

\* str::split(char): the pieces between the occurrences of c, at least one.
RECURSIVE split(_, _)
split(s, c) ==
    LET i == find(s, c)
    IN  IF i = 0 THEN <<s>>
        ELSE <<SubSeq(s, 1, i - 1)>> \o split(SubSeq(s, i + 1, Len(s)), c)

split_once(s, c) ==
    LET i == find(s, c)
    IN  IF i = 0 THEN None
        ELSE Some(<<SubSeq(s, 1, i - 1), SubSeq(s, i + 1, Len(s))>>)

rsplit_once(s, c) ==
    LET i == rfind(s, c)
    IN  IF i = 0 THEN None
        ELSE Some(<<SubSeq(s, 1, i - 1), SubSeq(s, i + 1, Len(s))>>)

\* str::split_ascii_whitespace: the maximal runs of bytes that are not ASCII
\* whitespace, none of them empty.
RECURSIVE split_ascii_whitespace(_)
split_ascii_whitespace(s) ==
    IF s = <<>> THEN <<>>
    ELSE IF is_ascii_whitespace(s[1]) THEN split_ascii_whitespace(Tail(s))
    ELSE LET ws == {i \in 1..Len(s) : is_ascii_whitespace(s[i])}
             e  == IF ws = {} THEN Len(s) + 1
                   ELSE CHOOSE i \in ws : \A j \in ws : i <= j
         IN  <<SubSeq(s, 1, e - 1)>> \o split_ascii_whitespace(SubSeq(s, e, Len(s)))

\* str::lines: the text cut at each line feed, a carriage return before the
\* line feed dropped with it; the text after the last line feed is a line
\* unless it is empty.
RECURSIVE lines_of(_)
lines_of(s) ==
    LET i == find(s, "\n")
    IN  IF s = <<>> THEN <<>>
        ELSE IF i = 0 THEN <<s>>
        ELSE LET l == SubSeq(s, 1, i - 1)
             IN  <<IF ends_with(l, <<"\r">>) THEN SubSeq(l, 1, Len(l) - 1) ELSE l>>
                 \o lines_of(SubSeq(s, i + 1, Len(s)))

\* itertools::join: the items with sep between them.
RECURSIVE join(_, _)
join(items, sep) ==
    IF items = <<>> THEN <<>>
    ELSE IF Len(items) = 1 THEN items[1]
    ELSE items[1] \o sep \o join(Tail(items), sep)

\* The concatenation of a sequence of strings.
RECURSIVE concat(_)
concat(ss) == IF ss = <<>> THEN <<>> ELSE ss[1] \o concat(Tail(ss))

\* The sequences of at most n elements of S.
SeqUpTo(S, n) == UNION {[1..k -> S] : k \in 0..n}

-----------------------------------------------------------------------------
(* Doc and Doc::from_str.                                                  *)

Man(s) == [doc |-> "Man", s |-> s]
Url(s) == [doc |-> "Url", s |-> s]

\* A mutation of Doc_from_str: the payload of a man page reference is kept
\* whole, and the payload of an address is not trimmed.
Doc_from_str_keeps_payload(status) ==
    LET items == split(status, ":")
    IN  IF Len(items) # 2
        THEN Err("InvalidData", "malformed doc descriptor")
        ELSE IF items[1] = <<"m","a","n">> THEN Ok(Man(items[2]))
        ELSE IF items[1] = <<"h","t","t","p">> THEN Ok(Url(<<"h","t","t","p",":">> \o items[2]))
        ELSE IF items[1] = <<"h","t","t","p","s">> THEN Ok(Url(<<"h","t","t","p","s",":">> \o items[2]))
        ELSE Err("InvalidData", "unknown type of doc")

\* A mutation of Doc_from_str: a descriptor of more than two parts is taken
\* by its first two, and the scheme is trimmed.
Doc_from_str_lenient(status) ==
    LET items == split(status, ":")
    IN  IF Len(items) < 2
        THEN Err("InvalidData", "malformed doc descriptor")
        ELSE IF trim(items[1]) = <<"m","a","n">> THEN Ok(Man(split(items[2], "(")[1]))
        ELSE IF trim(items[1]) = <<"h","t","t","p">> THEN Ok(Url(<<"h","t","t","p",":">> \o trim(items[2])))
        ELSE IF trim(items[1]) = <<"h","t","t","p","s">> THEN Ok(Url(<<"h","t","t","p","s",":">> \o trim(items[2])))
        ELSE Err("InvalidData", "unknown type of doc")

Doc_from_str(status) ==
    LET items == split(status, ":")
    IN  IF Len(items) # 2
        THEN Err("InvalidData", "malformed doc descriptor")
        ELSE IF items[1] = <<"m","a","n">> THEN Ok(Man(split(items[2], "(")[1]))
        ELSE IF items[1] = <<"h","t","t","p">> THEN Ok(Url(<<"h","t","t","p",":">> \o trim(items[2])))
        ELSE IF items[1] = <<"h","t","t","p","s">> THEN Ok(Url(<<"h","t","t","p","s",":">> \o trim(items[2])))
        ELSE Err("InvalidData", "unknown type of doc")

-----------------------------------------------------------------------------
(* The child process, as the environment makes it behave.                  *)

\* What a pipe of the child delivers: text, or bytes that are not UTF-8.
Utf8(t) == [utf8 |-> TRUE, text |-> t]
NotUtf8 == [utf8 |-> FALSE, text |-> <<>>]

\* A child: whether spawn() and wait() succeed, the code it exits with (None
\* when a signal kills it) and what it writes to its two pipes.
Child(code, out, err) ==
    [fault |-> "none", code |-> code, out |-> out, err |-> err]
SpawnFails == [fault |-> "spawn", code |-> None, out |-> Utf8(<<>>), err |-> Utf8(<<>>)]
WaitFails == [fault |-> "wait", code |-> None, out |-> Utf8(<<>>), err |-> Utf8(<<>>)]

\* Each line followed by a line feed, as systemctl prints them.
RECURSIVE unlines(_)
unlines(ls) == IF ls = <<>> THEN <<>> ELSE ls[1] \o <<"\n">> \o unlines(Tail(ls))

-----------------------------------------------------------------------------
(* SystemCtl::systemctl_capture.                                           *)

RunResult(out, err, status) ==
    [stdout |-> out, stderr |-> err, exit_status |-> status]

\* The error the ? after spawn_child() or child.wait() returns.
io_error(fault) ==
    IF fault = "spawn" THEN Err("NotFound", "spawn") ELSE Err("Os", "wait")

\* A mutation of classify: exit code 3 is an error like the unknown codes,
\* and exit code 4 is one of them.
classify_mut(status) ==
    IF status = None THEN Some(Err("Interrupted", "Process terminated by signal"))
    ELSE IF unwrap(status) \in {0, 1} THEN None
    ELSE Some(Err("Other", <<"Process exited with code: ", unwrap(status)>>))

\* The match on exit_status.code(): None when the function goes on to read
\* the pipes, the error it returns otherwise.
classify(status) ==
    IF status = None THEN Some(Err("Interrupted", "Process terminated by signal"))
    ELSE IF unwrap(status) \in {0, 1, 3} THEN None
    ELSE IF unwrap(status) = 4
    THEN Some(Err("PermissionDenied", "Missing Priviledges or Unit not found"))
    ELSE Some(Err("Other", <<"Process exited with code: ", unwrap(status)>>))

\* systemctl_capture as a function of what the child does.
systemctl_capture(ch) ==
    IF ch.fault # "none" THEN io_error(ch.fault)
    ELSE IF is_some(classify(ch.code)) THEN unwrap(classify(ch.code))
    ELSE IF ~ch.out.utf8 THEN Panic("read_to_string(stdout).unwrap()")
    ELSE IF ~ch.err.utf8 THEN Panic("read_to_string(stderr).unwrap()")
    ELSE Ok(RunResult(ch.out.text, ch.err.text, ch.code))

-----------------------------------------------------------------------------
(* SystemCtl::list_units_full and its callers.                             *)

UnitList(unit_file, state, vendor_preset) ==
    [unit_file |-> unit_file, state |-> state, vendor_preset |-> vendor_preset]

\* The arguments of the listing: the filters that are given, then the glob.
list_args(type_filter, state_filter, glob) ==
    <<"list-unit-files">>
    \o (IF is_some(type_filter) THEN <<"--type", unwrap(type_filter)>> ELSE <<>>)
    \o (IF is_some(state_filter) THEN <<"--state", unwrap(state_filter)>> ELSE <<>>)
    \o (IF is_some(glob) THEN <<unwrap(glob)>> ELSE <<>>)

\* The filter of the lines of the listing.
is_unit_line(line) == contains(line, ".") /\ ~ends_with(line, <<".">>)

vendor_preset_of(token) ==
    IF token = <<"-">> THEN None
    ELSE IF token = <<"e","n","a","b","l","e","d">> THEN Some(TRUE)
    ELSE IF token = <<"d","i","s","a","b","l","e","d">> THEN Some(FALSE)
    ELSE None

\* The loop over the filtered lines: parsed[2] panics on a line of fewer
\* than three columns.
RECURSIVE list_rows(_)
list_rows(ls) ==
    IF ls = <<>> THEN Ok(<<>>)
    ELSE LET parsed == split_ascii_whitespace(ls[1])
         IN  IF Len(parsed) < 3 THEN Panic("parsed[2]: index out of bounds")
             ELSE LET rest == list_rows(Tail(ls))
                  IN  IF rest.tag # "Ok" THEN rest
                      ELSE Ok(<<UnitList(parsed[1], parsed[2],
                                         vendor_preset_of(parsed[3]))>>
                              \o rest.val)

\* list_units_full as a function of what the child of the listing does.
list_units_full(ch) ==
    LET content == systemctl_capture(ch)
    IN  IF content.tag # "Ok" THEN content
        ELSE list_rows(SelectSeq(lines_of(content.val.stdout), is_unit_line))

\* list_units: the unit_file of every row.
list_units(ch) ==
    LET list == list_units_full(ch)
    IN  IF list.tag # "Ok" THEN list
        ELSE Ok([i \in 1..Len(list.val) |-> list.val[i].unit_file])

\* exists: whether the listing for the unit has a row.
exists(ch) ==
    LET unit_list == list_units(ch)
    IN  IF unit_list.tag # "Ok" THEN unit_list ELSE Ok(unit_list.val # <<>>)

\* is_active: whether the probe printed "active".
is_active(ch) ==
    LET status == systemctl_capture(ch)
    IN  IF status.tag # "Ok" THEN status
        ELSE Ok(trim_end(status.val.stdout) = <<"a","c","t","i","v","e">>)

-----------------------------------------------------------------------------
(* The enumerations decoded with strum's EnumString.                       *)

\* A mutation of AutoStartStatus_from_str: the case of the letters is not
\* told apart for "Static".
AutoStartStatus_from_str_any_case(s) ==
    IF s = <<"s","t","a","t","i","c">> \/ s = <<"S","t","a","t","i","c">> THEN Ok("Static")
    ELSE IF s = <<"e","n","a","b","l","e","d">> THEN Ok("Enabled")
    ELSE IF s = <<"e","n","a","b","l","e","d","-","r","u","n","t","i","m","e">> THEN Ok("EnabledRuntime")
    ELSE IF s = <<"d","i","s","a","b","l","e","d">> THEN Ok("Disabled")
    ELSE IF s = <<"g","e","n","e","r","a","t","e","d">> THEN Ok("Generated")
    ELSE IF s = <<"i","n","d","i","r","e","c","t">> THEN Ok("Indirect")
    ELSE IF s = <<"t","r","a","n","s","i","e","n","t">> THEN Ok("Transient")
    ELSE Err("VariantNotFound", "Matching variant not found")

AutoStartStatus_from_str(s) ==
    IF s = <<"s","t","a","t","i","c">> THEN Ok("Static")
    ELSE IF s = <<"e","n","a","b","l","e","d">> THEN Ok("Enabled")
    ELSE IF s = <<"e","n","a","b","l","e","d","-","r","u","n","t","i","m","e">> THEN Ok("EnabledRuntime")
    ELSE IF s = <<"d","i","s","a","b","l","e","d">> THEN Ok("Disabled")
    ELSE IF s = <<"g","e","n","e","r","a","t","e","d">> THEN Ok("Generated")
    ELSE IF s = <<"i","n","d","i","r","e","c","t">> THEN Ok("Indirect")
    ELSE IF s = <<"t","r","a","n","s","i","e","n","t">> THEN Ok("Transient")
    ELSE Err("VariantNotFound", "Matching variant not found")

Type_from_str(s) ==
    IF s = <<"a","u","t","o","m","o","u","n","t">> THEN Ok("AutoMount")
    ELSE IF s = <<"m","o","u","n","t">> THEN Ok("Mount")
    ELSE IF s = <<"s","e","r","v","i","c","e">> THEN Ok("Service")
    ELSE IF s = <<"s","c","o","p","e">> THEN Ok("Scope")
    ELSE IF s = <<"s","o","c","k","e","t">> THEN Ok("Socket")
    ELSE IF s = <<"s","l","i","c","e">> THEN Ok("Slice")
    ELSE IF s = <<"t","i","m","e","r">> THEN Ok("Timer")
    ELSE IF s = <<"p","a","t","h">> THEN Ok("Path")
    ELSE IF s = <<"t","a","r","g","e","t">> THEN Ok("Target")
    ELSE Err("VariantNotFound", "Matching variant not found")

-----------------------------------------------------------------------------
(* Unit and SystemCtl::create_unit.                                        *)

\* Unit::default()
Unit_default ==
    [name |-> <<>>, utype |-> "Service", description |-> None,
     state |-> "Masked", auto_start |-> "Disabled", active |-> FALSE,
     preset |-> FALSE, script |-> <<>>, restart_policy |-> None,
     kill_mode |-> None, process |-> None, pid |-> None, tasks |-> None,
     cpu |-> None, memory |-> None, mounted |-> None, mountpoint |-> None,
     docs |-> None, wants |-> None, wanted_by |-> None, also |-> None,
     before |-> None, after |-> None, exec_start |-> None,
     exec_reload |-> None, transient |-> FALSE]

\* opt.get_or_insert_with(Vec::new).push(x)
push(opt, x) == Some(IF is_some(opt) THEN Append(unwrap(opt), x) ELSE <<x>>)

\* str::is_char_boundary(i): the start, the end, or a byte that does not
\* continue a character.
is_char_boundary(s, i) ==
    i = 0 \/ i = Len(s) \/ (i < Len(s) /\ ~is_continuation(s[i + 1]))

Digits == {"0", "1", "2", "3", "4", "5", "6", "7", "8", "9"}

RECURSIVE strip_zeros(_)
strip_zeros(s) == IF Len(s) > 1 /\ s[1] = "0" THEN strip_zeros(Tail(s)) ELSE s

\* Whether the decimal numeral a is at most the numeral b of the same length.
RECURSIVE numeral_le(_, _)
numeral_le(a, b) ==
    IF a = <<>> THEN TRUE
    ELSE IF a[1] = b[1] THEN numeral_le(Tail(a), Tail(b))
    ELSE \E i, j \in 1..10 : /\ <<"0","1","2","3","4","5","6","7","8","9">>[i] = a[1]
                             /\ <<"0","1","2","3","4","5","6","7","8","9">>[j] = b[1]
                             /\ i < j

\* str::parse::<u64>(): an optional '+' and decimal digits, at most u64::MAX;
\* the number is kept as its numeral without leading zeros.
parse_u64(s) ==
    LET d == IF s # <<>> /\ s[1] = "+" THEN Tail(s) ELSE s
        n == strip_zeros(d)
    IN  IF d = <<>> \/ \E i \in 1..Len(d) : d[i] \notin Digits THEN None
        ELSE IF Len(n) > 20 \/ (Len(n) = 20 /\ ~numeral_le(n, <<"1","8","4","4","6","7","4","4","0","7","3","7","0","9","5","5","1","6","1","5">>))
        THEN None
        ELSE Some(n)

\* str::replace(&['(', ')'][..], "")
remove_parens(s) == SelectSeq(s, LAMBDA c : c \notin {"(", ")"})

\* A mutation of split_name: the name keeps its type suffix.
split_name_mut(name_raw) ==
    LET parts == rsplit_once(name_raw, ".")
    IN  IF parts = None THEN None ELSE Some(<<name_raw, unwrap(parts)[2]>>)

\* let (name, utype_raw) = name_raw.rsplit_once('.'), None when expect()
\* panics.
split_name(name_raw) == rsplit_once(name_raw, ".")

\* Lines 275-294: the header line.  name_raw is the first token after the
\* third byte; name and utype_raw are its parts around its last '.'.
parse_header(text_lines) ==
    IF text_lines = <<>> THEN Panic("lines.next().unwrap()")
    ELSE LET next == text_lines[1]
         IN  IF Len(next) < 3 \/ ~is_char_boundary(next, 3)
             THEN Panic("next.split_at(3)")
             ELSE LET rem == SubSeq(next, 4, Len(next))
                      items == split_ascii_whitespace(rem)
                  IN  IF items = <<>> THEN Panic("items.next().unwrap()")
                      ELSE LET name_raw == trim(items[1])
                               description ==
                                   IF Len(items) >= 2 /\ trim(items[2]) = <<"-">>
                                   THEN Some(join(SubSeq(items, 3, Len(items)), <<" ">>))
                                   ELSE None
                               parts == split_name(name_raw)
                           IN  IF parts = None
                               THEN Panic("Unit is missing a Type, this should not happen!")
                               ELSE IF Type_from_str(unwrap(parts)[2]).tag # "Ok"
                               THEN Panic("Type::from_str")
                               ELSE Ok([description |-> description,
                                        name |-> unwrap(parts)[1],
                                        utype |-> Type_from_str(unwrap(parts)[2]).val])

\* Lines 300-316: the value of a "Loaded: " line.
scan_loaded(u, value) ==
    LET rest == strip_prefix(value, <<"l","o","a","d","e","d"," ">>)
    IN  IF is_some(rest)
        THEN LET open == strip_prefix(unwrap(rest), <<"(">>)
             IN  IF open = None THEN Panic("strip_prefix('(').unwrap()")
                 ELSE IF strip_suffix(unwrap(open), <<")">>) = None
                 THEN Panic("strip_suffix(')').unwrap()")
                 ELSE LET items == split(unwrap(strip_suffix(unwrap(open), <<")">>)), ";")
                          auto == IF Len(items) >= 2
                                  THEN AutoStartStatus_from_str(trim(items[2]))
                                  ELSE Err("none", "none")
                      IN  IF Len(items) < 2 THEN Panic("items[1]: index out of bounds")
                          ELSE Ok([u EXCEPT
                                !.state = "Loaded",
                                !.script = trim(items[1]),
                                !.auto_start = IF auto.tag = "Ok" THEN auto.val
                                               ELSE "Disabled",
                                !.preset = IF Len(items) > 2
                                           THEN ends_with(trim(items[3]), <<"e","n","a","b","l","e","d">>)
                                           ELSE @])
        ELSE IF starts_with(value, <<"m","a","s","k","e","d">>)
        THEN Ok([u EXCEPT !.state = "Masked"])
        ELSE Ok(u)

\* Lines 338-341 and 344-347: the value of a "Main PID: " or "Cntrl PID: "
\* line.
scan_pid(u, value) ==
    LET parts == split_once(value, " ")
    IN  IF parts = None THEN u
        ELSE LET pid == parse_u64(unwrap(parts)[1])
             IN  [u EXCEPT !.pid = Some(IF is_some(pid) THEN unwrap(pid) ELSE <<"0">>),
                           !.process = Some(remove_parens(unwrap(parts)[2]))]

\* Lines 327-329 and 369-371: the descriptor joins docs when it parses.
scan_doc(u, descriptor) ==
    LET doc == Doc_from_str(descriptor)
    IN  IF doc.tag = "Ok" THEN [u EXCEPT !.docs = push(@, doc.val)] ELSE u

\* Lines 297-373: one turn of the loop over the lines after the header.
scan_line(u, is_doc, raw) ==
    LET line == trim_start(raw)
        same(v) == Ok([u |-> v, is_doc |-> is_doc])
        value(prefix) == unwrap(strip_prefix(line, prefix))
    IN  IF starts_with(line, <<"L","o","a","d","e","d",":"," ">>)
        THEN LET r == scan_loaded(u, value(<<"L","o","a","d","e","d",":"," ">>))
             IN  IF r.tag = "Ok" THEN same(r.val) ELSE r
        ELSE IF starts_with(line, <<"T","r","a","n","s","i","e","n","t",":"," ">>)
        THEN same(IF value(<<"T","r","a","n","s","i","e","n","t",":"," ">>) = <<"y","e","s">>
                  THEN [u EXCEPT !.transient = TRUE] ELSE u)
        ELSE IF starts_with(line, <<"A","c","t","i","v","e",":"," ">>) THEN same(u)
        ELSE IF starts_with(line, <<"D","o","c","s",":"," ">>)
        THEN Ok([u |-> scan_doc(u, value(<<"D","o","c","s",":"," ">>)), is_doc |-> TRUE])
        ELSE IF starts_with(line, <<"W","h","a","t",":"," ">>)
        THEN same([u EXCEPT !.mounted = Some(value(<<"W","h","a","t",":"," ">>))])
        ELSE IF starts_with(line, <<"W","h","e","r","e",":"," ">>)
        THEN same([u EXCEPT !.mountpoint = Some(value(<<"W","h","e","r","e",":"," ">>))])
        ELSE IF starts_with(line, <<"M","a","i","n"," ","P","I","D",":"," ">>)
        THEN same(scan_pid(u, value(<<"M","a","i","n"," ","P","I","D",":"," ">>)))
        ELSE IF starts_with(line, <<"C","n","t","r","l"," ","P","I","D",":"," ">>)
        THEN same(scan_pid(u, value(<<"C","n","t","r","l"," ","P","I","D",":"," ">>)))
        ELSE IF starts_with(line, <<"P","r","o","c","e","s","s",":"," ">>) THEN same(u)
        ELSE IF starts_with(line, <<"C","G","r","o","u","p",":"," ">>) THEN same(u)
        ELSE IF starts_with(line, <<"T","a","s","k","s",":"," ">>) THEN same(u)
        ELSE IF starts_with(line, <<"M","e","m","o","r","y",":"," ">>)
        THEN same([u EXCEPT !.memory = Some(trim(value(<<"M","e","m","o","r","y",":"," ">>)))])
        ELSE IF starts_with(line, <<"C","P","U",":"," ">>)
        THEN same([u EXCEPT !.cpu = Some(trim(value(<<"C","P","U",":"," ">>)))])
        ELSE IF is_doc THEN same(scan_doc(u, trim_start(line)))
        ELSE same(u)

\* A mutation of set_directive: a value that holds a '=' is dropped, as if the
\* line of two '=' had been skipped.
set_directive_one_equals(u, k, val) ==
    IF contains(val, "=") THEN u
    ELSE IF k = <<"W","a","n","t","s">> THEN [u EXCEPT !.wants = push(@, val)]
    ELSE IF k = <<"W","a","n","t","e","d","B","y">> THEN [u EXCEPT !.wanted_by = push(@, val)]
    ELSE IF k = <<"A","l","s","o">> THEN [u EXCEPT !.also = push(@, val)]
    ELSE IF k = <<"B","e","f","o","r","e">> THEN [u EXCEPT !.before = push(@, val)]
    ELSE IF k = <<"A","f","t","e","r">> THEN [u EXCEPT !.after = push(@, val)]
    ELSE IF k = <<"E","x","e","c","S","t","a","r","t">> THEN [u EXCEPT !.exec_start = Some(val)]
    ELSE IF k = <<"E","x","e","c","R","e","l","o","a","d">> THEN [u EXCEPT !.exec_reload = Some(val)]
    ELSE IF k = <<"R","e","s","t","a","r","t">> THEN [u EXCEPT !.restart_policy = Some(val)]
    ELSE IF k = <<"K","i","l","l","M","o","d","e">> THEN [u EXCEPT !.kill_mode = Some(val)]
    ELSE u

\* Lines 381-395: one key and value of the directive dump.
set_directive(u, k, val) ==
    IF k = <<"W","a","n","t","s">> THEN [u EXCEPT !.wants = push(@, val)]
    ELSE IF k = <<"W","a","n","t","e","d","B","y">> THEN [u EXCEPT !.wanted_by = push(@, val)]
    ELSE IF k = <<"A","l","s","o">> THEN [u EXCEPT !.also = push(@, val)]
    ELSE IF k = <<"B","e","f","o","r","e">> THEN [u EXCEPT !.before = push(@, val)]
    ELSE IF k = <<"A","f","t","e","r">> THEN [u EXCEPT !.after = push(@, val)]
    ELSE IF k = <<"E","x","e","c","S","t","a","r","t">> THEN [u EXCEPT !.exec_start = Some(val)]
    ELSE IF k = <<"E","x","e","c","R","e","l","o","a","d">> THEN [u EXCEPT !.exec_reload = Some(val)]
    ELSE IF k = <<"R","e","s","t","a","r","t">> THEN [u EXCEPT !.restart_policy = Some(val)]
    ELSE IF k = <<"K","i","l","l","M","o","d","e">> THEN [u EXCEPT !.kill_mode = Some(val)]
    ELSE u

\* Lines 377-395: the lines of the dump that split_once('=') splits, in
\* order.
RECURSIVE parse_directives(_, _)
parse_directives(u, dump_lines) ==
    IF dump_lines = <<>> THEN u
    ELSE LET kv == split_once(dump_lines[1], "=")
         IN  parse_directives(
                 IF kv = None THEN u
                 ELSE set_directive(u, unwrap(kv)[1], unwrap(kv)[2]),
                 Tail(dump_lines))

-----------------------------------------------------------------------------
(* The state.                                                              *)

VARIABLES
    pc,          \* the position of the operation under way
    arg,         \* its argument: a descriptor, a glob or a unit name
    result,      \* what it returned: Ok, Err, a panic, or nothing yet
    child,       \* systemctl_capture: the child spawned, None before
    exit_status, \* systemctl_capture: what child.wait() returned
    stdout,      \* systemctl_capture: the String read from child.stdout
    stderr,      \* systemctl_capture: the String read from child.stderr
    calls,       \* create_unit: the arguments of each systemctl run so far
    unit_exists, \* create_unit: what self.exists(name) returned
    status,      \* create_unit: the lines of the text self.status(name) gave
    name,        \* create_unit: what the identifier `name` is bound to
    next,        \* create_unit: the header line of the status text
    lines,       \* create_unit: the lines the iterator has yet to yield
    u,           \* create_unit: the Unit under construction
    content,     \* create_unit: the lines of the text self.cat(name) gave
    is_doc       \* create_unit: the flag a "Docs: " line sets

vars == <<pc, arg, result, child, exit_status, stdout, stderr,
          calls, unit_exists, status, name, next, lines, u, is_doc, content>>

captureVars == <<child, exit_status, stdout, stderr>>

unitVars == <<calls, unit_exists, status, name, next, lines, u, is_doc, content>>

NotRead == [read |-> FALSE, text |-> <<>>]
Read(t) == [read |-> TRUE, text |-> t]

InitCaptureVars ==
    /\ child = None
    /\ exit_status = None
    /\ stdout = NotRead
    /\ stderr = NotRead

InitUnitVars ==
    /\ calls = <<>>
    /\ unit_exists = NoResult
    /\ status = None
    /\ name = <<>>
    /\ next = None
    /\ lines = <<>>
    /\ u = Unit_default
    /\ is_doc = FALSE
    /\ content = None

-----------------------------------------------------------------------------
(* Doc::from_str on the descriptors built from a few pieces.               *)

DocPieces ==
    { <<"m","a","n">>, <<"h","t","t","p">>, <<"h","t","t","p","s">>, <<"M","a","n">>, <<" ">>, <<":">>, <<"(">>, <<"x">> }

DocInputs == {concat(ps) : ps \in SeqUpTo(DocPieces, MaxDocPieces)}

InitDoc ==
    /\ pc = "Doc::from_str"
    /\ arg \in DocInputs
    /\ result = NoResult
    /\ InitCaptureVars
    /\ InitUnitVars

CallDocFromStr ==
    /\ pc = "Doc::from_str"
    /\ result' = Doc_from_str(arg)
    /\ pc' = "done"
    /\ UNCHANGED <<arg, captureVars, unitVars>>

NextDoc == CallDocFromStr

SpecDoc == InitDoc /\ [][NextDoc]_vars

-----------------------------------------------------------------------------
(* systemctl_capture, step by step, on every child of the model.           *)

ExitCodes == {Some(c) : c \in 0..MaxExitCode} \cup {None}

CaptureStreams == {Utf8(<<>>), Utf8(<<"a","c","t","i","v","e","\n">>), NotUtf8}

CaptureChildren ==
    {Child(c, o, e) : c \in ExitCodes, o \in CaptureStreams, e \in CaptureStreams}
    \cup {SpawnFails, WaitFails}

InitCapture ==
    /\ pc = "spawn_child"
    /\ arg = <<"is-active", <<"c","r","o","n">>>>
    /\ result = NoResult
    /\ InitCaptureVars
    /\ InitUnitVars

\* let mut child = self.spawn_child(args)?;
SpawnChild ==
    /\ pc = "spawn_child"
    /\ \E ch \in CaptureChildren :
        /\ child' = Some(ch)
        /\ IF ch.fault = "spawn"
           THEN result' = io_error("spawn") /\ pc' = "done"
           ELSE result' = result /\ pc' = "wait"
    /\ UNCHANGED <<arg, exit_status, stdout, stderr, unitVars>>

\* let exit_status = child.wait()?;
Wait ==
    /\ pc = "wait"
    /\ IF unwrap(child).fault = "wait"
       THEN result' = io_error("wait") /\ pc' = "done" /\ UNCHANGED exit_status
       ELSE exit_status' = Some(unwrap(child).code) /\ pc' = "match"
            /\ UNCHANGED result
    /\ UNCHANGED <<arg, child, stdout, stderr, unitVars>>

\* match exit_status.code() { ... }
Classify ==
    /\ pc = "match"
    /\ LET c == classify(unwrap(exit_status))
       IN  IF is_some(c)
           THEN result' = unwrap(c) /\ pc' = "done"
           ELSE result' = result /\ pc' = "read_stdout"
    /\ UNCHANGED <<arg, child, exit_status, stdout, stderr, unitVars>>

\* child.stdout.unwrap().read_to_string(&mut stdout).unwrap();
ReadStdout ==
    /\ pc = "read_stdout"
    /\ IF unwrap(child).out.utf8
       THEN stdout' = Read(unwrap(child).out.text) /\ pc' = "read_stderr"
            /\ UNCHANGED result
       ELSE result' = Panic("read_to_string(stdout).unwrap()") /\ pc' = "done"
            /\ UNCHANGED stdout
    /\ UNCHANGED <<arg, child, exit_status, stderr, unitVars>>

\* child.stderr.unwrap().read_to_string(&mut stderr).unwrap();
ReadStderr ==
    /\ pc = "read_stderr"
    /\ IF unwrap(child).err.utf8
       THEN stderr' = Read(unwrap(child).err.text) /\ pc' = "return"
            /\ UNCHANGED result
       ELSE result' = Panic("read_to_string(stderr).unwrap()") /\ pc' = "done"
            /\ UNCHANGED stderr
    /\ UNCHANGED <<arg, child, exit_status, stdout, unitVars>>

\* Ok(RunResult { stdout, stderr, exit_status })
ReturnRunResult ==
    /\ pc = "return"
    /\ result' = Ok(RunResult(stdout.text, stderr.text, unwrap(exit_status)))
    /\ pc' = "done"
    /\ UNCHANGED <<arg, child, exit_status, stdout, stderr, unitVars>>

NextCapture ==
    SpawnChild \/ Wait \/ Classify \/ ReadStdout \/ ReadStderr \/ ReturnRunResult

\* The steps and the function agree on what the call returns.
CaptureStepsAgree ==
    pc = "done" /\ is_some(child) => result = systemctl_capture(unwrap(child))

SpecCapture == InitCapture /\ [][NextCapture]_vars

-----------------------------------------------------------------------------
(* list_units_full on the listings of a few lines.                         *)

ListLines ==
    { <<"U","N","I","T"," ","F","I","L","E"," "," "," "," "," ","S","T","A","T","E"," "," "," ","V","E","N","D","O","R"," ","P","R","E","S","E","T">>,
      <<"c","r","o","n",".","s","e","r","v","i","c","e"," "," ","e","n","a","b","l","e","d"," ","e","n","a","b","l","e","d">>,
      <<"a",".","s","o","c","k","e","t"," "," "," "," "," "," ","d","i","s","a","b","l","e","d"," ","-">>,
      <<"b",".","m","o","u","n","t"," ","s","t","a","t","i","c"," ","d","i","s","a","b","l","e","d"," ","e","x","t","r","a">>,
      <<"c",".","t","i","m","e","r","\t","m","a","s","k","e","d"," ","x">>,
      <<>>,
      <<"2"," ","u","n","i","t"," ","f","i","l","e","s"," ","l","i","s","t","e","d",".">>,
      <<"o","l","d",".","s","e","r","v","i","c","e"," "," "," ","e","n","a","b","l","e","d">>,
      <<"L","i","s","t","i","n","g"," ","v","1",".","2"," ","f","o","l","l","o","w","s">>,
      <<"d",".","p","a","t","h"," ","s","t","a","t","i","c"," ","e","n","a","b","l","e","d",".">> }

ListChildren ==
    {Child(Some(0), Utf8(unlines(ls)), Utf8(<<>>)) : ls \in SeqUpTo(ListLines, MaxListLines)}
    \cup {Child(Some(c), Utf8(<<>>), Utf8(<<>>)) : c \in {1, 4}}

Globs == {None, Some(<<"*",".","s","e","r","v","i","c","e">>)}

InitList ==
    /\ pc = "list_units_full"
    /\ arg \in Globs
    /\ result = NoResult
    /\ InitCaptureVars
    /\ InitUnitVars

CallListUnitsFull ==
    /\ pc = "list_units_full"
    /\ \E ch \in ListChildren :
        /\ child' = Some(ch)
        /\ result' = list_units_full(ch)
    /\ pc' = "done"
    /\ UNCHANGED <<arg, exit_status, stdout, stderr, unitVars>>

NextList == CallListUnitsFull

SpecList == InitList /\ [][NextList]_vars

-----------------------------------------------------------------------------
(* create_unit, probe by probe and line by line.                           *)

\* A mutation of unit_is_absent: the answer of exists() is never a reason to
\* return.
unit_is_absent_mut(r) == FALSE

\* if let Ok(false) = self.exists(name)
unit_is_absent(r) == r = Ok(FALSE)

\* Lines 267-272: the listing for the unit, and NotFound when it has no row.
CheckExists(children) ==
    /\ pc = "create_unit"
    /\ \E ch \in children :
        LET r == exists(ch)
        IN  /\ unit_exists' = r
            /\ IF r.tag = "Panic"
               THEN result' = r /\ pc' = "done"
               ELSE IF unit_is_absent(r)
               THEN /\ result' = Err("NotFound",
                                     <<"Unit or service \"", name, "\" does not exist">>)
                    /\ pc' = "done"
               ELSE result' = result /\ pc' = "status"
    /\ calls' = Append(calls, list_args(None, None, Some(name)))
    /\ UNCHANGED <<arg, captureVars, status, name, next, lines, u, is_doc, content>>

\* Lines 273-275: let status = self.status(name)?, and its lines.
QueryStatus(children) ==
    /\ pc = "status"
    /\ \E ch \in children :
        LET r == systemctl_capture(ch)
        IN  IF r.tag # "Ok"
            THEN result' = r /\ pc' = "done" /\ UNCHANGED <<status, lines>>
            ELSE /\ status' = Some(lines_of(r.val.stdout))
                 /\ lines' = lines_of(r.val.stdout)
                 /\ pc' = "header"
                 /\ UNCHANGED result
    /\ calls' = Append(calls, <<"status", name>>)
    /\ UNCHANGED <<arg, captureVars, unit_exists, name, next, u, is_doc, content>>

\* Lines 276-294: the header line gives the description, the type and the
\* new binding of `name`.
ParseHeader ==
    /\ pc = "header"
    /\ LET h == parse_header(lines)
       IN  IF h.tag # "Ok"
           THEN /\ result' = h /\ pc' = "done"
                /\ next' = IF lines = <<>> THEN None ELSE Some(lines[1])
                /\ UNCHANGED <<name, lines, u>>
           ELSE /\ u' = [u EXCEPT !.description = h.val.description,
                                  !.utype = h.val.utype]
                /\ name' = h.val.name
                /\ next' = Some(lines[1])
                /\ lines' = Tail(lines)
                /\ pc' = "scan"
                /\ UNCHANGED result
    /\ UNCHANGED <<arg, captureVars, calls, unit_exists, status, is_doc, content>>

\* Lines 296-374: one turn of the loop.
ScanLine ==
    /\ pc = "scan"
    /\ lines # <<>>
    /\ LET r == scan_line(u, is_doc, lines[1])
       IN  IF r.tag # "Ok"
           THEN result' = r /\ pc' = "done" /\ UNCHANGED <<u, is_doc>>
           ELSE u' = r.val.u /\ is_doc' = r.val.is_doc /\ pc' = "scan"
                /\ UNCHANGED result
    /\ lines' = Tail(lines)
    /\ UNCHANGED <<arg, captureVars, calls, unit_exists, status, name, next, content>>

\* Lines 376-396: if let Ok(content) = self.cat(name), and its directives.
QueryCat(children) ==
    /\ pc = "scan"
    /\ lines = <<>>
    /\ \E ch \in children :
        LET r == systemctl_capture(ch)
        IN  IF r.tag = "Panic"
            THEN result' = r /\ pc' = "done" /\ UNCHANGED <<u, content>>
            ELSE /\ u' = IF r.tag = "Ok"
                         THEN parse_directives(u, lines_of(r.val.stdout))
                         ELSE u
                 /\ content' = IF r.tag = "Ok"
                               THEN Some(lines_of(r.val.stdout))
                               ELSE None
                 /\ pc' = "is_active"
                 /\ UNCHANGED result
    /\ calls' = Append(calls, <<"cat", name>>)
    /\ UNCHANGED <<arg, captureVars, unit_exists, status, name, next, lines, is_doc>>

\* Lines 398-400: u.active = self.is_active(name)?, u.name and Ok(u).
QueryIsActive(children) ==
    /\ pc = "is_active"
    /\ \E ch \in children :
        LET r == is_active(ch)
        IN  IF r.tag # "Ok"
            THEN result' = r /\ UNCHANGED u
            ELSE /\ u' = [u EXCEPT !.active = r.val, !.name = name]
                 /\ result' = Ok(u')
    /\ pc' = "done"
    /\ calls' = Append(calls, <<"is-active", name>>)
    /\ UNCHANGED <<arg, captureVars, unit_exists, status, name, next, lines, is_doc,
                   content>>

\* The unit names create_unit is called with.
Names == { <<"c","r","o","n",".","s","e","r","v","i","c","e">>, <<"f","o","o",".","s","o","c","k","e","t">> }

NoOutput == Utf8(<<>>)

\* The answers to the listing of one unit: a row, no row (exit code 0 or 1),
\* a refusal, a row of the two-column listing of older systemd.
ExistsChildren ==
    { Child(Some(0), Utf8(unlines(<< <<"U","N","I","T"," ","F","I","L","E"," "," "," "," ","S","T","A","T","E"," "," "," ","V","E","N","D","O","R"," ","P","R","E","S","E","T">>,
                                     <<"c","r","o","n",".","s","e","r","v","i","c","e"," ","e","n","a","b","l","e","d"," ","e","n","a","b","l","e","d">>,
                                     <<>>,
                                     <<"1"," ","u","n","i","t"," ","f","i","l","e","s"," ","l","i","s","t","e","d",".">> >>)), NoOutput),
      Child(Some(0), Utf8(unlines(<< <<"U","N","I","T"," ","F","I","L","E"," ","S","T","A","T","E"," ","V","E","N","D","O","R"," ","P","R","E","S","E","T">>,
                                     <<>>,
                                     <<"0"," ","u","n","i","t"," ","f","i","l","e","s"," ","l","i","s","t","e","d",".">> >>)), NoOutput),
      Child(Some(1), NoOutput, NoOutput),
      Child(Some(4), NoOutput, NoOutput),
      Child(Some(0), Utf8(unlines(<< <<"c","r","o","n",".","s","e","r","v","i","c","e"," ","e","n","a","b","l","e","d">> >>)), NoOutput) }

\* The header lines: the glyph is U+25CF or U+25CB (three bytes), U+00D7 (two
\* bytes), '*' (one byte) or U+1F7E2 (four bytes).
HeadersOk ==
    { <<"E2","97","8F"," ","c","r","o","n",".","s","e","r","v","i","c","e"," ","-"," ","P","e","r","i","o","d","i","c"," ","c","o","m","m","a","n","d"," ","s","c","h","e","d","u","l","e","r">>,
      <<"E2","97","8F"," ","f","o","o",".","s","o","c","k","e","t"," ","-"," ","F","o","o"," "," ","S","o","c","k","e","t"," ">>,
      <<"E2","97","8B"," ","c","r","o","n",".","s","e","r","v","i","c","e">>,
      <<"C3","97"," ","a",".","b",".","t","i","m","e","r"," ","-">>,
      <<"*"," ","c","r","o","n",".","s","e","r","v","i","c","e"," ","-"," ","P","e","r","i","o","d","i","c"," ","c","o","m","m","a","n","d"," ","s","c","h","e","d","u","l","e","r">> }

HeadersBad ==
    { <<"E2","97","8F"," ","f","o","o",".","w","i","d","g","e","t"," ","-"," ","U","n","k","n","o","w","n"," ","t","y","p","e">>,
      <<"E2","97","8F"," ","c","r","o","n"," ","-"," ","N","o"," ","t","y","p","e">>,
      <<"E2","97","8F">>,
      <<"x">>,
      <<"F0","9F","9F","A2"," ","c","r","o","n",".","s","e","r","v","i","c","e"," ","-"," ","N","e","w"," ","g","l","y","p","h">> }

StatusLinesCore ==
    { <<" "," "," "," "," ","L","o","a","d","e","d",":"," ","l","o","a","d","e","d"," ","(","/","l","i","b","/","c","r","o","n",".","s","e","r","v","i","c","e",";"," ","e","n","a","b","l","e","d",";"," ","p","r","e","s","e","t",":"," ","e","n","a","b","l","e","d",")">>,
      <<" "," "," "," "," ","L","o","a","d","e","d",":"," ","m","a","s","k","e","d"," ","(","R","e","a","s","o","n",":"," ","U","n","i","t"," ","c","r","o","n",".","s","e","r","v","i","c","e"," ","i","s"," ","m","a","s","k","e","d",".",")">>,
      <<" "," "," "," "," ","L","o","a","d","e","d",":"," ","l","o","a","d","e","d"," ","(","/","l","i","b","/","c","r","o","n",".","s","e","r","v","i","c","e",")">>,
      <<" "," "," "," "," ","A","c","t","i","v","e",":"," ","a","c","t","i","v","e"," ","(","r","u","n","n","i","n","g",")">>,
      <<" "," "," "," "," "," "," ","D","o","c","s",":"," ","m","a","n",":","c","r","o","n","(","8",")">>,
      <<" "," "," "," "," "," "," "," "," "," "," "," "," ","h","t","t","p","s",":","/","/","x",".","o","r","g">> }

StatusLinesAll ==
    StatusLinesCore \cup
    { <<" "," "," "," "," ","L","o","a","d","e","d",":"," ","l","o","a","d","e","d"," ","(","/","r","u","n","/","x",".","s","e","r","v","i","c","e",";"," ","q","u","a","n","t","u","m","-","e","n","a","b","l","e","d",")">>,
      <<" "," "," "," "," ","L","o","a","d","e","d",":"," ","l","o","a","d","e","d"," ","("," ","/","x",".","t","i","m","e","r"," ",";"," ","S","t","a","t","i","c"," ",";"," ","p","r","e","s","e","t",":"," ","d","i","s","a","b","l","e","d",")">>,
      <<" "," "," "," "," ","L","o","a","d","e","d",":"," ","l","o","a","d","e","d"," ","/","l","i","b","/","c","r","o","n",".","s","e","r","v","i","c","e",";"," ","e","n","a","b","l","e","d">>,
      <<" "," "," "," "," ","L","o","a","d","e","d",":"," ","l","o","a","d","e","d">>,
      <<" "," ","T","r","a","n","s","i","e","n","t",":"," ","y","e","s">>,
      <<" "," "," ","M","a","i","n"," ","P","I","D",":"," ","7","8","7"," ","(","c","r","o","n",")">>,
      <<" "," "," "," "," ","M","e","m","o","r","y",":"," ","1",".","2","M">>,
      <<" "," "," "," "," ","C","G","r","o","u","p",":"," ","/","s","y","s","t","e","m",".","s","l","i","c","e","/","c","r","o","n",".","s","e","r","v","i","c","e">>,
      <<" "," "," "," "," "," "," "," "," "," "," "," "," ","E2","94","94","E2","94","80","7","8","7"," ","/","u","s","r","/","s","b","i","n","/","c","r","o","n"," ","-","f">> }

CatLinesCore ==
    { <<"[","U","n","i","t","]">>,
      <<"A","f","t","e","r","=","a",".","t","a","r","g","e","t">>,
      <<"E","x","e","c","S","t","a","r","t","=","/","b","i","n","/","x"," ","-","-","o","p","t","=","1">> }

CatLinesAll ==
    CatLinesCore \cup
    { <<"#"," ","/","l","i","b","/","s","y","s","t","e","m","d","/","s","y","s","t","e","m","/","c","r","o","n",".","s","e","r","v","i","c","e">>,
      <<"R","e","s","t","a","r","t","=","a","l","w","a","y","s">>,
      <<"A","f","t","e","r","=","b",".","t","a","r","g","e","t">>,
      <<"W","a","n","t","s","=","a",".","s","e","r","v","i","c","e">>,
      <<"W","a","n","t","e","d","B","y","=","m","u","l","t","i","-","u","s","e","r",".","t","a","r","g","e","t">>,
      <<"K","i","l","l","M","o","d","e","=","p","r","o","c","e","s","s">>,
      <<"D","e","s","c","r","i","p","t","i","o","n","=","R","e","g","u","l","a","r"," ","j","o","b","s">>,
      <<" ","A","f","t","e","r","=","c",".","t","a","r","g","e","t">> }

StatusTexts(headers, body_lines, n) ==
    {unlines(<<h>> \o body) : h \in headers, body \in SeqUpTo(body_lines, n)}

\* The answers to status: a text (exit code 0, or 3 for a unit that is not
\* running), nothing, bytes that are not UTF-8, a refusal.
StatusChildren ==
    {Child(Some(c), Utf8(t), NoOutput) :
        c \in {0, 3},
        t \in StatusTexts(HeadersOk \cup HeadersBad, StatusLinesCore, MaxProbeLines)}
    \cup {Child(Some(0), NoOutput, NoOutput), Child(Some(0), NotUtf8, NoOutput),
          Child(Some(4), NoOutput, Utf8(<<"U","n","i","t"," ","x",".","s","e","r","v","i","c","e"," ","c","o","u","l","d"," ","n","o","t"," ","b","e"," ","f","o","u","n","d",".","\n">>))}

\* The answers to cat: a dump, nothing (exit code 1), bytes that are not
\* UTF-8, a refusal.
CatChildren ==
    {Child(Some(0), Utf8(unlines(ls)), NoOutput) :
        ls \in SeqUpTo(CatLinesCore, MaxProbeLines)}
    \cup {Child(Some(1), NoOutput, Utf8(<<"N","o"," ","f","i","l","e","s"," ","f","o","u","n","d"," ","f","o","r"," ","x",".","s","e","r","v","i","c","e",".","\n">>)),
          Child(Some(0), NotUtf8, NoOutput),
          Child(Some(4), NoOutput, NoOutput)}

\* The answers to is-active: active, inactive (exit code 3), a refusal, a
\* signal.
IsActiveChildren ==
    { Child(Some(0), Utf8(<<"a","c","t","i","v","e","\n">>), NoOutput),
      Child(Some(3), Utf8(<<"i","n","a","c","t","i","v","e","\n">>), NoOutput),
      Child(Some(4), NoOutput, NoOutput),
      Child(None, NoOutput, NoOutput) }

InitCreateUnit(names) ==
    /\ pc = "create_unit"
    /\ arg \in names
    /\ result = NoResult
    /\ InitCaptureVars
    /\ calls = <<>>
    /\ unit_exists = NoResult
    /\ status = None
    /\ name = arg
    /\ next = None
    /\ lines = <<>>
    /\ u = Unit_default
    /\ is_doc = FALSE
    /\ content = None

Init == InitCreateUnit(Names)

Next ==
    \/ CheckExists(ExistsChildren)
    \/ QueryStatus(StatusChildren)
    \/ ParseHeader
    \/ ScanLine
    \/ QueryCat(CatChildren)
    \/ QueryIsActive(IsActiveChildren)

Spec == Init /\ [][Next]_vars

-----------------------------------------------------------------------------
(* create_unit on the status texts of a few lines, the unit being listed,  *)
(* its dump empty and the unit active.                                     *)

StatusRichChildren ==
    {Child(Some(0), Utf8(t), NoOutput) :
        t \in StatusTexts({ <<"E2","97","8F"," ","c","r","o","n",".","s","e","r","v","i","c","e"," ","-"," ","P","e","r","i","o","d","i","c"," ","c","o","m","m","a","n","d"," ","s","c","h","e","d","u","l","e","r">> },
                          StatusLinesAll, MaxStatusLines)}

ListedChildren ==
    { Child(Some(0), Utf8(unlines(<< <<"c","r","o","n",".","s","e","r","v","i","c","e"," ","e","n","a","b","l","e","d"," ","e","n","a","b","l","e","d">> >>)), NoOutput) }

NoDumpChildren == { Child(Some(1), NoOutput, NoOutput) }

ActiveChildren == { Child(Some(0), Utf8(<<"a","c","t","i","v","e","\n">>), NoOutput) }

InitStatus == InitCreateUnit({ <<"c","r","o","n",".","s","e","r","v","i","c","e">> })

NextStatus ==
    \/ CheckExists(ListedChildren)
    \/ QueryStatus(StatusRichChildren)
    \/ ParseHeader
    \/ ScanLine
    \/ QueryCat(NoDumpChildren)
    \/ QueryIsActive(ActiveChildren)

SpecStatus == InitStatus /\ [][NextStatus]_vars

-----------------------------------------------------------------------------
(* create_unit on the directive dumps of a few lines, the unit being       *)
(* listed, loaded and active.                                              *)

LoadedStatusChildren ==
    {Child(Some(0), Utf8(t), NoOutput) :
        t \in { unlines(<< <<"E2","97","8F"," ","c","r","o","n",".","s","e","r","v","i","c","e"," ","-"," ","P","e","r","i","o","d","i","c"," ","c","o","m","m","a","n","d"," ","s","c","h","e","d","u","l","e","r">>,
                           <<" "," "," "," "," ","L","o","a","d","e","d",":"," ","l","o","a","d","e","d"," ","(","/","l","i","b","/","c","r","o","n",".","s","e","r","v","i","c","e",";"," ","e","n","a","b","l","e","d",";"," ","p","r","e","s","e","t",":"," ","e","n","a","b","l","e","d",")">> >>) }}

CatRichChildren ==
    {Child(Some(0), Utf8(unlines(ls)), NoOutput) :
        ls \in SeqUpTo(CatLinesAll, MaxCatLines)}

InitCat == InitCreateUnit({ <<"c","r","o","n",".","s","e","r","v","i","c","e">> })

NextCat ==
    \/ CheckExists(ListedChildren)
    \/ QueryStatus(LoadedStatusChildren)
    \/ ParseHeader
    \/ ScanLine
    \/ QueryCat(CatRichChildren)
    \/ QueryIsActive(ActiveChildren)

SpecCat == InitCat /\ [][NextCat]_vars

-----------------------------------------------------------------------------
(* The properties.                                                         *)

\* The positions of the colons of a descriptor, its scheme and its payload
\* when it has one colon.
Colons(s) == {i \in 1..Len(s) : s[i] = ":"}
Scheme(s) == SubSeq(s, 1, (CHOOSE i \in Colons(s) : TRUE) - 1)
Payload(s) == SubSeq(s, (CHOOSE i \in Colons(s) : TRUE) + 1, Len(s))

\* t is p without the whitespace at its two ends.
IsTrimOf(t, p) ==
    \E a, b \in 0..Len(p) :
        /\ a + b <= Len(p)
        /\ t = SubSeq(p, a + 1, Len(p) - b)
        /\ \A i \in 1..a : is_whitespace(p[i])
        /\ \A i \in (Len(p) - b + 1)..Len(p) : is_whitespace(p[i])
        /\ t = <<>> \/ (~is_whitespace(t[1]) /\ ~is_whitespace(t[Len(t)]))

\* q is the part of p before its first '(', p itself when it has none.
IsBeforeParen(q, p) ==
    /\ Len(q) <= Len(p)
    /\ q = SubSeq(p, 1, Len(q))
    /\ \A i \in 1..Len(q) : q[i] # "("
    /\ Len(q) = Len(p) \/ p[Len(q) + 1] = "("

\* C2: systemctl_capture returns by the exit status of the child: for the
\* codes 0, 1 and 3 never an error, and Ok with the stdout, the stderr and the
\* exit status of the child once its two pipes are read as text; for the code
\* 4 an error of kind PermissionDenied; for any other code an error of kind
\* Other whose message carries the code; for a death by signal an error of
\* kind Interrupted.
C2_ExitStatusClassified ==
    pc = "done" /\ is_some(exit_status) =>
        LET code == unwrap(exit_status)
            ch == unwrap(child)
        IN  IF code = None
            THEN result.tag = "Err" /\ result.kind = "Interrupted"
            ELSE IF unwrap(code) \in {0, 1, 3}
            THEN /\ result.tag # "Err"
                 /\ ch.out.utf8 /\ ch.err.utf8 =>
                        result = Ok([stdout |-> ch.out.text,
                                     stderr |-> ch.err.text,
                                     exit_status |-> code])
            ELSE IF unwrap(code) = 4
            THEN result.tag = "Err" /\ result.kind = "PermissionDenied"
            ELSE /\ result.tag = "Err" /\ result.kind = "Other"
                 /\ result.msg[2] = unwrap(code)

\* A child that exits with code 3 after printing is answered with Ok and what
\* it printed.
C2_Witness ==
    /\ pc = "done"
    /\ exit_status = Some(Some(3))
    /\ result.tag = "Ok"
    /\ result.val.stdout = <<"a","c","t","i","v","e","\n">>
    /\ result.val.exit_status = Some(3)

\* The lines of the listing the child printed.
ListingLines == lines_of(unwrap(child).out.text)

ListingCaptured ==
    /\ unwrap(child).fault = "none"
    /\ unwrap(child).code \in {Some(0), Some(1), Some(3)}
    /\ unwrap(child).out.utf8 /\ unwrap(child).err.utf8

HasDottedFirstColumn(line) ==
    LET t == split_ascii_whitespace(line)
    IN  t # <<>> /\ contains(t[1], ".") /\ ~ends_with(t[1], <<".">>)

IsListingRow(line) ==
    Len(split_ascii_whitespace(line)) >= 3 /\ HasDottedFirstColumn(line)

RowOf(line) ==
    LET t == split_ascii_whitespace(line)
    IN  [unit_file |-> t[1], state |-> t[2],
         vendor_preset |-> IF t[3] = <<"e","n","a","b","l","e","d">> THEN Some(TRUE)
                           ELSE IF t[3] = <<"d","i","s","a","b","l","e","d">> THEN Some(FALSE)
                           ELSE None]

\* C7: list_units_full returns, in the order of the lines, one row for each
\* line of at least 3 columns whose first column contains a '.' and does not
\* end with one, and none for any other line; the row holds the columns 0, 1
\* and 2, the third decoded.
C7_OneRowPerDottedLine ==
    pc = "done" /\ ListingCaptured =>
        LET rows == SelectSeq(ListingLines, IsListingRow)
        IN  result = Ok([i \in 1..Len(rows) |-> RowOf(rows[i])])

\* C8: a line that passes the filter of the dotted name and has fewer than 3
\* columns makes list_units_full return an error.
C8_ShortRowIsAnError ==
    pc = "done" /\ ListingCaptured
    /\ (\E i \in 1..Len(ListingLines) :
            /\ HasDottedFirstColumn(ListingLines[i])
            /\ Len(split_ascii_whitespace(ListingLines[i])) < 3)
    => result.tag = "Err"

\* C9: on a descriptor with exactly one ':', Doc::from_str returns Man of the
\* payload before its first '(' when the scheme is man, and Url of the scheme,
\* ':' and the trimmed payload when the scheme is http or https.
C9_ManAndUrlDescriptors ==
    pc = "done" /\ Cardinality(Colons(arg)) = 1 =>
        /\ Scheme(arg) = <<"m","a","n">> =>
              /\ result.tag = "Ok" /\ result.val.doc = "Man"
              /\ IsBeforeParen(result.val.s, Payload(arg))
        /\ Scheme(arg) \in { <<"h","t","t","p">>, <<"h","t","t","p","s">> } =>
              /\ result.tag = "Ok" /\ result.val.doc = "Url"
              /\ \E n \in 0..Len(Payload(arg)) :
                    /\ Len(result.val.s) = Len(Scheme(arg)) + 1 + n
                    /\ SubSeq(result.val.s, 1, Len(Scheme(arg)) + 1)
                           = Scheme(arg) \o <<":">>
                    /\ IsTrimOf(SubSeq(result.val.s, Len(Scheme(arg)) + 2,
                                       Len(result.val.s)),
                                Payload(arg))

\* A man page reference is parsed up to its '('.
C9_Witness ==
    /\ pc = "done"
    /\ arg = <<"m","a","n",":","x","(">>
    /\ result = Ok(Man(<<"x">>))

\* C10: Doc::from_str returns an error of kind InvalidData on a descriptor
\* whose scheme is not exactly man, http or https, and on a descriptor with
\* no ':' or with two or more.
C10_OtherDescriptorsRejected ==
    pc = "done"
    /\ (Cardinality(Colons(arg)) = 1 =>
            Scheme(arg) \notin { <<"m","a","n">>, <<"h","t","t","p">>, <<"h","t","t","p","s">> })
    => result.tag = "Err" /\ result.kind = "InvalidData"

\* An address with a second ':' and a scheme with a blank before it are
\* rejected.
C10_Witness ==
    /\ pc = "done"
    /\ arg \in { <<"h","t","t","p",":","x",":">>, <<" ","m","a","n",":","x">> }
    /\ result.tag = "Err"

\* The header line as the text describes it: the glyph, the dotted name, and
\* after a "-" the description.
HeaderTokens(h) == split_ascii_whitespace(h)

UnitTypes ==
    { << <<"s","e","r","v","i","c","e">>, "Service" >>, << <<"s","o","c","k","e","t">>, "Socket" >>,
      << <<"m","o","u","n","t">>, "Mount" >>, << <<"a","u","t","o","m","o","u","n","t">>, "AutoMount" >>,
      << <<"t","i","m","e","r">>, "Timer" >>, << <<"p","a","t","h">>, "Path" >>,
      << <<"t","a","r","g","e","t">>, "Target" >>, << <<"s","c","o","p","e">>, "Scope" >>,
      << <<"s","l","i","c","e">>, "Slice" >> }

BaseOf(dotted) == SubSeq(dotted, 1, rfind(dotted, ".") - 1)
SuffixOf(dotted) == SubSeq(dotted, rfind(dotted, ".") + 1, Len(dotted))

HasKnownSuffix(dotted) ==
    contains(dotted, ".") /\ \E t \in UnitTypes : t[1] = SuffixOf(dotted)

\* The text of the line after its "-" token and the blank that ends it.
RemainderAfterDash(h) ==
    LET dash == {i \in 1..Len(h) :
                    /\ h[i] = "-"
                    /\ i > 1 /\ is_ascii_whitespace(h[i - 1])
                    /\ i = Len(h) \/ is_ascii_whitespace(h[i + 1])}
        i == CHOOSE i \in dash : \A j \in dash : i <= j
    IN  SubSeq(h, i + 2, Len(h))

\* C1: create_unit fails only when the unit does not exist or the type suffix
\* of the header cannot be decoded: it ends with a Unit, with NotFound for a
\* unit that is not listed, or with DecodeFailure, and never aborts.
C1_FailsOnlyAbsentOrUndecodable ==
    pc = "done" =>
        \/ result.tag = "Ok"
        \/ /\ result.tag = "Err" /\ result.kind = "NotFound"
           /\ unit_exists = Ok(FALSE)
        \/ /\ result.tag = "Err" /\ result.kind = "DecodeFailure"
           /\ is_some(next)
           /\ Len(HeaderTokens(unwrap(next))) >= 2
           /\ ~HasKnownSuffix(HeaderTokens(unwrap(next))[2])

\* C3: when the listing for the name has no row, create_unit returns NotFound
\* having run nothing but that listing; and no status, cat or is-active runs
\* before the listing has answered otherwise.
C3_AbsentUnitIsNotFoundFirst ==
    /\ unit_exists = Ok(FALSE) =>
          /\ pc = "done"
          /\ result.tag = "Err" /\ result.kind = "NotFound"
          /\ calls = << <<"list-unit-files", arg>> >>
    /\ \A i \in 1..Len(calls) :
          calls[i][1] \in {"status", "cat", "is-active"} =>
              /\ i > 1
              /\ calls[1] = <<"list-unit-files", arg>>
              /\ unit_exists # NoResult

\* The listing answered without a row and create_unit returned NotFound.
C3_Witness ==
    /\ unit_exists = Ok(FALSE)
    /\ result.tag = "Err" /\ result.kind = "NotFound"
    /\ Len(calls) = 1

\* C4: a header whose dotted name has no '.' or ends in a suffix that is not a
\* unit type makes create_unit return a DecodeFailure error.
C4_UnknownSuffixIsDecodeFailure ==
    pc = "done" /\ is_some(next)
    /\ Len(HeaderTokens(unwrap(next))) >= 2
    /\ ~HasKnownSuffix(HeaderTokens(unwrap(next))[2])
    => result.tag = "Err" /\ result.kind = "DecodeFailure"

\* C5: in every Unit returned, script is not empty when state is Loaded and
\* empty when state is Masked.
C5_ScriptSetIffLoaded ==
    pc = "done" /\ result.tag = "Ok" =>
        /\ result.val.state = "Loaded" => result.val.script # <<>>
        /\ result.val.state = "Masked" => result.val.script = <<>>

\* C6 as stated: for a header "<glyph> <base>.<suffix> - <description>" with a
\* known suffix, name is the base, utype the decoded suffix and description
\* the remainder of the line after the "-" token, None without that token.
C6_HeaderAsStated ==
    pc = "done" /\ result.tag = "Ok"
    /\ Len(HeaderTokens(unwrap(next))) >= 2
    /\ HasKnownSuffix(HeaderTokens(unwrap(next))[2])
    => LET h == unwrap(next)
           toks == HeaderTokens(h)
       IN  /\ result.val.name = BaseOf(toks[2])
           /\ <<SuffixOf(toks[2]), result.val.utype>> \in UnitTypes
           /\ result.val.description =
                  IF Len(toks) >= 3 /\ toks[3] = <<"-">>
                  THEN Some(RemainderAfterDash(h)) ELSE None

\* C6 as amended: the first 3 bytes of the header are skipped; the first
\* token of the rest is the dotted name; name is its part before its last
\* '.', utype the decoded part after it, and description the tokens after a
\* "-" token joined by single blanks, None when the second token is not "-".
C6_HeaderByBytesAndTokens ==
    pc = "done" /\ result.tag = "Ok" =>
        LET h == unwrap(next)
            toks == split_ascii_whitespace(SubSeq(h, 4, Len(h)))
        IN  /\ toks # <<>>
            /\ contains(toks[1], ".")
            /\ result.val.name = BaseOf(toks[1])
            /\ <<SuffixOf(toks[1]), result.val.utype>> \in UnitTypes
            /\ result.val.description =
                   IF Len(toks) >= 2 /\ toks[2] = <<"-">>
                   THEN Some(join(SubSeq(toks, 3, Len(toks)), <<" ">>))
                   ELSE None

\* The header of foo.socket, whose description has two blanks in a row and
\* one at its end, gives the name foo and the description rejoined.
C6_Witness ==
    /\ pc = "done" /\ result.tag = "Ok"
    /\ next = Some(<<"E2","97","8F"," ","f","o","o",".","s","o","c","k","e","t"," ","-"," ","F","o","o"," "," ","S","o","c","k","e","t"," ">>)
    /\ result.val.name = <<"f","o","o">>
    /\ result.val.utype = "Socket"
    /\ result.val.description = Some(<<"F","o","o"," ","S","o","c","k","e","t">>)

\* The seven modes of auto-start and their variants.
KnownModes ==
    { << <<"s","t","a","t","i","c">>, "Static" >>, << <<"e","n","a","b","l","e","d">>, "Enabled" >>,
      << <<"e","n","a","b","l","e","d","-","r","u","n","t","i","m","e">>, "EnabledRuntime" >>,
      << <<"d","i","s","a","b","l","e","d">>, "Disabled" >>, << <<"g","e","n","e","r","a","t","e","d">>, "Generated" >>,
      << <<"i","n","d","i","r","e","c","t">>, "Indirect" >>, << <<"t","r","a","n","s","i","e","n","t">>, "Transient" >> }

\* The variant a token decodes to: its own when it is one of the seven modes,
\* letter for letter, Disabled otherwise.
ModeOf(token) ==
    IF \E m \in KnownModes : m[1] = token
    THEN (CHOOSE m \in KnownModes : m[1] = token)[2]
    ELSE "Disabled"

\* The line is "Loaded: loaded (script; token)" or
\* "Loaded: loaded (script; token; ...)" after the blanks at its start.
IsLoadedWithToken(line) ==
    LET t == trim_start(line)
    IN  /\ starts_with(t, <<"L","o","a","d","e","d",":"," ","l","o","a","d","e","d"," ","(">>)
        /\ t[Len(t)] = ")"
        /\ \E i \in 17..(Len(t) - 1) : t[i] = ";"

\* What is between the parentheses of such a line, cut at each ';'.
LoadedItems(line) ==
    LET t == trim_start(line) IN split(SubSeq(t, 17, Len(t) - 1), ";")

\* The lines of the status text after its header that begin with "Loaded: ".
LoadedLines ==
    {i \in 2..Len(unwrap(status)) :
        starts_with(trim_start(unwrap(status)[i]), <<"L","o","a","d","e","d",":"," ">>)}

\* C11: the turn of the loop on a line "Loaded: loaded (script; token; ...)"
\* does not fail and sets state to Loaded, script to the script and auto_start
\* to the variant of the token when the token, trimmed, is one of the seven
\* modes letter for letter, and to Disabled when it is not; and the Unit
\* returned has these three values when that line is the last "Loaded: " line
\* of the status text.
C11_UnknownModeIsDisabled ==
    /\ [][pc = "scan" /\ lines # <<>> /\ IsLoadedWithToken(lines[1]) =>
            LET items == LoadedItems(lines[1])
            IN  /\ pc' = "scan" /\ result' = NoResult
                /\ u'.state = "Loaded"
                /\ IsTrimOf(u'.script, items[1])
                /\ u'.auto_start = ModeOf(trim(items[2]))]_vars
    /\ [](pc = "done" /\ result.tag = "Ok" /\ LoadedLines # {} =>
            LET last == CHOOSE i \in LoadedLines : \A j \in LoadedLines : j <= i
                line == unwrap(status)[last]
            IN  IsLoadedWithToken(line) =>
                    /\ result.val.state = "Loaded"
                    /\ IsTrimOf(result.val.script, LoadedItems(line)[1])
                    /\ result.val.auto_start = ModeOf(trim(LoadedItems(line)[2])))

\* The status text whose only line after the header is
\* "Loaded: loaded (/run/x.service; quantum-enabled)" gave a Unit that is
\* Loaded, with that script and auto_start Disabled.
C11_Witness ==
    /\ pc = "done" /\ result.tag = "Ok"
    /\ Len(unwrap(status)) = 2
    /\ unwrap(status)[2] = <<" "," "," "," "," ","L","o","a","d","e","d",":"," ","l","o","a","d","e","d"," ","(","/","r","u","n","/","x",".","s","e","r","v","i","c","e",";"," ","q","u","a","n","t","u","m","-","e","n","a","b","l","e","d",")">>
    /\ result.val.state = "Loaded"
    /\ result.val.script = <<"/","r","u","n","/","x",".","s","e","r","v","i","c","e">>
    /\ result.val.auto_start = "Disabled"

\* The prefixes the loop recognizes other than "Docs: ".
OtherPrefixes ==
    { <<"L","o","a","d","e","d",":"," ">>, <<"T","r","a","n","s","i","e","n","t",":"," ">>, <<"A","c","t","i","v","e",":"," ">>, <<"W","h","a","t",":"," ">>, <<"W","h","e","r","e",":"," ">>,
      <<"M","a","i","n"," ","P","I","D",":"," ">>, <<"C","n","t","r","l"," ","P","I","D",":"," ">>, <<"P","r","o","c","e","s","s",":"," ">>, <<"C","G","r","o","u","p",":"," ">>, <<"T","a","s","k","s",":"," ">>,
      <<"M","e","m","o","r","y",":"," ">>, <<"C","P","U",":"," ">> }

\* The list of docs once a descriptor has been offered to the Doc parser.
Offered(docs, descriptor) ==
    IF Doc_from_str(descriptor).tag = "Ok"
    THEN push(docs, Doc_from_str(descriptor).val)
    ELSE docs

\* The docs that a Docs block gives on the lines handled so far: a "Docs: "
\* line opens the block and offers its value, any other recognized prefix
\* closes it, and a line without a recognized prefix is offered while the block
\* is open.
RECURSIVE DocsOfBlocks(_, _, _)
DocsOfBlocks(handled, docs, in_docs_block) ==
    IF handled = <<>> THEN docs
    ELSE LET line == trim_start(handled[1])
         IN  IF starts_with(line, <<"D","o","c","s",":"," ">>)
             THEN DocsOfBlocks(Tail(handled),
                               Offered(docs, SubSeq(line, 7, Len(line))), TRUE)
             ELSE IF \E p \in OtherPrefixes : starts_with(line, p)
             THEN DocsOfBlocks(Tail(handled), docs, FALSE)
             ELSE DocsOfBlocks(Tail(handled),
                               IF in_docs_block THEN Offered(docs, line) ELSE docs,
                               in_docs_block)

\* The lines after the header that the loop has handled.
HandledLines == SubSeq(unwrap(status), 2, Len(unwrap(status)) - Len(lines))

\* C12: between two turns of the loop, docs holds what the Docs blocks of the
\* lines handled so far give: a line without a recognized prefix adds to docs
\* only inside a block that a "Docs: " line opened and no other recognized
\* prefix has closed since.
C12_DocsBlockClosesAtPrefix ==
    pc = "scan" => u.docs = DocsOfBlocks(HandledLines, None, FALSE)

\* How many '=' the line holds.
EqualsSigns(line) == Cardinality({i \in 1..Len(line) : line[i] = "="})

\* The values of the key in the dump, in file order: what follows "key=" on
\* each line that begins with it, the lines of more than one '=' being left
\* out when only_one is TRUE.
ValuesOf(dump, key, only_one) ==
    LET Taken(line) == /\ starts_with(line, key \o <<"=">>)
                       /\ only_one => EqualsSigns(line) = 1
        taken == SelectSeq(dump, Taken)
    IN  [i \in 1..Len(taken) |-> SubSeq(taken[i], Len(key) + 2, Len(taken[i]))]

\* A list field after the dump: the values of its key added to it in file
\* order. A scalar field: the last value of its key, its old value without one.
ListAfter(old, dump, key, only_one) ==
    IF ValuesOf(dump, key, only_one) = <<>> THEN old
    ELSE Some((IF is_some(old) THEN unwrap(old) ELSE <<>>)
              \o ValuesOf(dump, key, only_one))

ScalarAfter(old, dump, key, only_one) ==
    LET vs == ValuesOf(dump, key, only_one)
    IN  IF vs = <<>> THEN old ELSE Some(vs[Len(vs)])

\* The Unit after the dump: the nine directive fields by their keys, every
\* other field as it was.
UnitAfterDump(un, dump, only_one) ==
    [un EXCEPT
        !.wants = ListAfter(@, dump, <<"W","a","n","t","s">>, only_one),
        !.wanted_by = ListAfter(@, dump, <<"W","a","n","t","e","d","B","y">>, only_one),
        !.also = ListAfter(@, dump, <<"A","l","s","o">>, only_one),
        !.before = ListAfter(@, dump, <<"B","e","f","o","r","e">>, only_one),
        !.after = ListAfter(@, dump, <<"A","f","t","e","r">>, only_one),
        !.exec_start = ScalarAfter(@, dump, <<"E","x","e","c","S","t","a","r","t">>, only_one),
        !.exec_reload = ScalarAfter(@, dump, <<"E","x","e","c","R","e","l","o","a","d">>, only_one),
        !.restart_policy = ScalarAfter(@, dump, <<"R","e","s","t","a","r","t">>, only_one),
        !.kill_mode = ScalarAfter(@, dump, <<"K","i","l","l","M","o","d","e">>, only_one)]

\* The step of create_unit that reads the directive dump.
DumpIsRead == pc = "scan" /\ lines = <<>> /\ pc' = "is_active" /\ is_some(content')

\* C13 as stated: the dump changes the Unit by its lines of exactly one '='
\* only: such a line with a recognized key adds its value to the list field of
\* the key in file order or sets the scalar field of the key; a line with no
\* '=', with two or more '=' or with another key changes no field.
C13_LinesOfOneEqualsSign ==
    [][DumpIsRead => u' = UnitAfterDump(u, unwrap(content'), TRUE)]_vars

\* C13 as amended: the dump changes the Unit by its lines of one '=' or more,
\* each split at its first '=': the key is what comes before it, letter for
\* letter, and the value all that follows it, further '=' included; a
\* recognized key adds the value to its list field in file order or sets its
\* scalar field; a line with no '=' or with another key changes no field.
C13_LinesSplitAtFirstEqualsSign ==
    [][DumpIsRead => u' = UnitAfterDump(u, unwrap(content'), FALSE)]_vars

\* The dump "After=a.target", "ExecStart=/bin/x --opt=1", "After=b.target"
\* has been read: after holds the two targets in file order and exec_start
\* the command with its option.
C13_Witness ==
    /\ pc = "is_active"
    /\ content = Some(<< <<"A","f","t","e","r","=","a",".","t","a","r","g","e","t">>, <<"E","x","e","c","S","t","a","r","t","=","/","b","i","n","/","x"," ","-","-","o","p","t","=","1">>,
                         <<"A","f","t","e","r","=","b",".","t","a","r","g","e","t">> >>)
    /\ u.after = Some(<< <<"a",".","t","a","r","g","e","t">>, <<"b",".","t","a","r","g","e","t">> >>)
    /\ u.exec_start = Some(<<"/","b","i","n","/","x"," ","-","-","o","p","t","=","1">>)
    /\ u.wants = None

\* C14: whenever systemctl_capture has returned by the exit status of the
\* child, with Ok or with the error of the code 4, of an unknown code or of a
\* signal, it has read the stdout and the stderr of the child to their end
\* before.
C14_DrainedBeforeClassified ==
    pc = "done" /\ is_some(exit_status) /\ result.tag \in {"Ok", "Err"} =>
        stdout.read /\ stderr.read

\* C15: every systemctl run of one create_unit call, the listing, status, cat
\* and is-active alike, is for the unit identifier the call was given.
C15_ProbesForTheUnitAsked ==
    \A i \in 1..Len(calls) : calls[i][Len(calls[i])] = arg

=============================================================================
